---- MODULE Spec2Model ----
(***************************************************************************)
(* Model of scraper.py (class UNGMScraper): the tender pipeline            *)
(*   search_tenders_selenium -> assess_difficulty -> filter_top_tenders    *)
(*   -> update_google_sheets, sequenced by run().                          *)
(*                                                                         *)
(* Texts are sequences of one-character strings, so that substring tests,  *)
(* lower() and strip() are computed rather than assumed.                   *)
(***************************************************************************)
EXTENDS Integers, Sequences, FiniteSets, TLC

VARIABLES
    page,       \* per run: the <tr> rows of the rendered page, each its <td> cells
    store,      \* the worksheet's rows from row 2 on (row 1 is the header), so
                \* that ws.row_count is 1 + Len(store)
    store0,     \* the worksheet's data rows before any run started
    ops,        \* the worksheet calls issued so far: [run, op, row, ok]
    pc,         \* per run: position in run()
    tenders,    \* per run: result of search_tenders_selenium()
    top,        \* per run: top_tenders
    snap,       \* per run: ws.row_count as read when the worksheet was opened
    idx,        \* per run: number of tenders appended so far
    ret,        \* per run: what update_google_sheets returned
    runReturn,  \* per run: what run() returned
    fnIn,       \* argument of a direct call of a pure method
    fnOut,      \* its result
    fnDone      \* whether the call has returned

vars == <<page, store, store0, ops, pc, tenders, top, snap, idx, ret,
          runReturn, fnIn, fnOut, fnDone>>

(***************************************************************************)
(* Bounds of the model                                                     *)
(***************************************************************************)
MaxRows == 3        \* rows on a fetched page
MaxPrior == 1       \* data rows left in the sheet by an earlier run
MaxLen == 4         \* tenders handed to filter_top_tenders directly
MaxLimit == 5       \* limit handed to filter_top_tenders directly

(***************************************************************************)
(* Text                                                                    *)
(***************************************************************************)
Upper == <<"A", "B", "C", "D", "E", "F", "G", "H", "I", "J", "K", "L", "M",
    "N", "O", "P", "Q", "R", "S", "T", "U", "V", "W", "X", "Y", "Z">>
LowerOf == <<"a", "b", "c", "d", "e", "f", "g", "h", "i", "j", "k", "l", "m",
    "n", "o", "p", "q", "r", "s", "t", "u", "v", "w", "x", "y", "z">>
Whitespace == {" ", "\t", "\n"}

LowerTable ==
    [c \in {Upper[i] : i \in DOMAIN Upper} |->
        LowerOf[CHOOSE i \in DOMAIN Upper : Upper[i] = c]]

LowerChar(c) == IF c \in DOMAIN LowerTable THEN LowerTable[c] ELSE c

\* str.lower()
lower(s) == [i \in 1..Len(s) |-> LowerChar(s[i])]

RECURSIVE lstrip(_)
lstrip(s) == IF s # <<>> /\ Head(s) \in Whitespace THEN lstrip(Tail(s)) ELSE s

RECURSIVE rstrip(_)
rstrip(s) ==
    IF s # <<>> /\ s[Len(s)] \in Whitespace THEN rstrip(SubSeq(s, 1, Len(s) - 1)) ELSE s

\* str.strip()
strip(s) == rstrip(lstrip(s))

\* needle in hay
Contains(needle, hay) ==
    \E i \in 0..(Len(hay) - Len(needle)) :
        SubSeq(hay, i + 1, i + Len(needle)) = needle

Str_office == <<"o", "f", "f", "i", "c", "e">>
Str_office_furniture == <<"o", "f", "f", "i", "c", "e", " ", "f", "u", "r",
    "n", "i", "t", "u", "r", "e">>
Str_office_supplies == <<"o", "f", "f", "i", "c", "e", " ", "s", "u", "p",
    "p", "l", "i", "e", "s">>
Str_office_chairs == <<"o", "f", "f", "i", "c", "e", " ", "c", "h", "a", "i",
    "r", "s">>
Str_RFQ == <<"R", "e", "q", "u", "e", "s", "t", " ", "f", "o", "r", " ", "q",
    "u", "o", "t", "a", "t", "i", "o", "n">>
Str_ITB == <<"I", "n", "v", "i", "t", "a", "t", "i", "o", "n", " ", "t", "o",
    " ", "b", "i", "d">>
Str_RFP == <<"R", "e", "q", "u", "e", "s", "t", " ", "f", "o", "r", " ", "p",
    "r", "o", "p", "o", "s", "a", "l">>
Str_NA == <<"N", "/", "A">>
Str_Active == <<"A", "c", "t", "i", "v", "e">>
Str_Easy == <<"E", "a", "s", "y">>
Str_Moderate == <<"M", "o", "d", "e", "r", "a", "t", "e">>
Str_Complex == <<"C", "o", "m", "p", "l", "e", "x">>

(***************************************************************************)
(* __init__                                                                *)
(***************************************************************************)
search_terms == <<Str_office_furniture, Str_office_supplies, Str_office_chairs>>

(***************************************************************************)
(* assess_difficulty                                                       *)
(***************************************************************************)
easy_types == <<Str_RFQ, Str_ITB>>
moderate_types == <<Str_RFP>>

AnyIn(types, text) == \E i \in DOMAIN types : Contains(types[i], text)

\* faulty variant: the moderate list is tried first
assess_difficulty_moderate_first(tender_type) ==
    IF AnyIn(moderate_types, tender_type) THEN Str_Moderate
    ELSE IF AnyIn(easy_types, tender_type) THEN Str_Easy
    ELSE Str_Complex

assess_difficulty(tender_type) ==
    IF AnyIn(easy_types, tender_type) THEN Str_Easy
    ELSE IF AnyIn(moderate_types, tender_type) THEN Str_Moderate
    ELSE Str_Complex

(***************************************************************************)
(* search_tenders_selenium: the row loop                                   *)
(* A row is the sequence of its <td> cells; a cell has its text and the    *)
(* first <a> inside it, if any. Python's cells[k] is cells[k + 1] here.    *)
(***************************************************************************)
NoLink == [present |-> FALSE, text |-> <<>>, hasHref |-> FALSE, href |-> <<>>]
Link(text, href) == [present |-> TRUE, text |-> text, hasHref |-> TRUE, href |-> href]
LinkNoHref(text) == [present |-> TRUE, text |-> text, hasHref |-> FALSE, href |-> <<>>]
Cell(text) == [text |-> text, a |-> NoLink]
LinkCell(link) == [text |-> link.text, a |-> link]

MinCells == 7

\* len(cells) >= 7
\* faulty variant: the cell count is not tested
EnoughCellsAny(cells) == TRUE
EnoughCells(cells) == Len(cells) >= MinCells

\* bool(title_link): find('a') gives None or a Tag, and a Tag is always true
HasTitleLink(cells) == cells[1].a.present

\* cells[0], cells[1] and cells[2] are indexed unguarded: a shorter row raises
\* IndexError, which the row's except clause turns into a skipped row
RowRaises(cells) == Len(cells) = 0 \/ (HasTitleLink(cells) /\ Len(cells) < 3)

\* cells[k].text.strip() if len(cells) > k else 'N/A'
CellOrNA(cells, k) == IF Len(cells) > k THEN strip(cells[k + 1].text) ELSE Str_NA

tender_data(cells) ==
    [Title        |-> strip(cells[1].a.text),
     Deadline     |-> strip(cells[2].text),
     Published    |-> strip(cells[3].text),
     Organization |-> CellOrNA(cells, 3),
     Type         |-> CellOrNA(cells, 4),
     Reference    |-> CellOrNA(cells, 5),
     Country      |-> CellOrNA(cells, 6),
     Status       |-> Str_Active,
     Difficulty   |-> assess_difficulty(IF Len(cells) > 4 THEN cells[5].text ELSE <<>>),
     URL          |-> IF cells[1].a.hasHref THEN cells[1].a.href ELSE Str_NA]

\* 'office' in title.lower() or any(term in title.lower() for term in search_terms)
\* faulty variant: every title passes
IsRelevantAlways(title) == TRUE
IsRelevant(title) ==
    Contains(Str_office, lower(title)) \/ AnyIn(search_terms, lower(title))

\* one iteration of the loop: the tenders it appends (none or one)
ParseRow(cells) ==
    IF ~EnoughCells(cells) THEN <<>>
    ELSE IF RowRaises(cells) THEN <<>>
    ELSE IF ~HasTitleLink(cells) THEN <<>>
    ELSE IF IsRelevant(tender_data(cells).Title) THEN <<tender_data(cells)>>
    ELSE <<>>

RECURSIVE ParseRows(_)
ParseRows(rows) ==
    IF rows = <<>> THEN <<>>
    ELSE ParseRows(SubSeq(rows, 1, Len(rows) - 1)) \o ParseRow(rows[Len(rows)])

\* What the outer try leaves in `tenders`:
\*   "ok"         nothing raised
\*   "error"      Chrome, driver.get or the wait raised before any row was read
\*   "quit_error" driver.quit() raised after the loop
FetchOutcomes == {"ok", "error", "quit_error"}

search_tenders_selenium(rows, outcome) ==
    IF outcome = "error" THEN <<>> ELSE ParseRows(rows)

(***************************************************************************)
(* filter_top_tenders                                                      *)
(***************************************************************************)
difficulty_order(d) ==
    CASE d = Str_Easy -> 1
      [] d = Str_Moderate -> 2
      [] d = Str_Complex -> 3

\* df['difficulty_score'] = df['Difficulty'].map(difficulty_order), one record
WithScore(t) == t @@ [difficulty_score |-> difficulty_order(t.Difficulty)]

DataFrame(ts) == [i \in 1..Len(ts) |-> WithScore(ts[i])]

\* The arrangements of the rows S of df that ascend in difficulty_score.
RECURSIVE Ascending(_, _)
Ascending(df, S) ==
    IF S = {} THEN {<<>>}
    ELSE LET least == {i \in S : \A j \in S :
                          df[i].difficulty_score <= df[j].difficulty_score}
         IN  UNION {{<<df[i]>> \o r : r \in Ascending(df, S \ {i})} : i \in least}

\* df.sort_values('difficulty_score'): kind defaults to 'quicksort', which
\* pandas documents as not stable (numpy's introsort past 16 rows, a
\* vectorised sort on some builds), so the order of rows with equal scores is
\* whatever the numpy build produces: any ascending arrangement.
sort_values(df) == Ascending(df, DOMAIN df)

\* df.head(n), n >= 0
\* faulty variant: one row too many
head_one_more(df, n) == SubSeq(df, 1, IF n + 1 < Len(df) THEN n + 1 ELSE Len(df))
head(df, n) == SubSeq(df, 1, IF n < Len(df) THEN n ELSE Len(df))

\* the results filter_top_tenders can return
filter_top_tenders(ts, limit) ==
    IF ts = <<>> THEN {<<>>}
    ELSE {head(s, limit) : s \in sort_values(DataFrame(ts))}

(***************************************************************************)
(* update_google_sheets                                                    *)
(***************************************************************************)
\* tender.get(key, '')
Get(t, key) == IF key \in DOMAIN t THEN t[key] ELSE <<>>

\* faulty variant: Difficulty is left out of the row
RowOfNineFields(t) ==
    <<Get(t, "Title"), Get(t, "Deadline"), Get(t, "Published"),
      Get(t, "Organization"), Get(t, "Type"), Get(t, "Reference"),
      Get(t, "Country"), Get(t, "Status"), Get(t, "URL")>>

\* the list handed to ws.append_row
RowOf(t) ==
    <<Get(t, "Title"), Get(t, "Deadline"), Get(t, "Published"),
      Get(t, "Organization"), Get(t, "Type"), Get(t, "Reference"),
      Get(t, "Country"), Get(t, "Status"), Get(t, "Difficulty"), Get(t, "URL")>>

\* ws.delete_rows(first, last) on the data rows: data row j is sheet row j + 1.
\* Rows of the range that the sheet no longer has are not there to delete.
\* faulty variant: nothing is deleted
delete_rows_none(rows, first, last) == rows
delete_rows(rows, first, last) ==
    SubSeq(rows, 1, first - 2) \o SubSeq(rows, last, Len(rows))

\* ws.row_count > 1
HasDataRows(row_count) == row_count > 1

\* the except clause: print the error, return False
\* faulty variant: the except clause returns True
OnErrorReturnTrue(p) ==
    /\ ret' = [ret EXCEPT ![p] = "True"]
    /\ pc' = [pc EXCEPT ![p] = "finish"]
OnError(p) ==
    /\ ret' = [ret EXCEPT ![p] = "False"]
    /\ pc' = [pc EXCEPT ![p] = "finish"]

Call(p, op, row, ok) == [run |-> p, op |-> op, row |-> row, ok |-> ok]

\* gspread.service_account_from_dict, open_by_key, get_worksheet(0)
SheetsOpen(p) ==
    /\ pc[p] = "open"
    /\ \E ok \in BOOLEAN :
          IF ok
          THEN /\ snap' = [snap EXCEPT ![p] = 1 + Len(store)]
               /\ pc' = [pc EXCEPT ![p] = "clear"]
               /\ UNCHANGED ret
          ELSE /\ OnError(p)
               /\ UNCHANGED snap
    /\ UNCHANGED <<page, store, store0, ops, tenders, top, idx, runReturn,
                   fnIn, fnOut, fnDone>>

\* if ws.row_count > 1: ws.delete_rows(2, ws.row_count)
SheetsClear(p) ==
    /\ pc[p] = "clear"
    /\ IF HasDataRows(snap[p])
       THEN \E ok \in BOOLEAN :
              /\ ops' = Append(ops, Call(p, "delete_rows", <<>>, ok))
              /\ IF ok
                 THEN /\ store' = delete_rows(store, 2, snap[p])
                      /\ pc' = [pc EXCEPT ![p] = "append"]
                      /\ UNCHANGED ret
                 ELSE /\ OnError(p)
                      /\ UNCHANGED store
       ELSE /\ pc' = [pc EXCEPT ![p] = "append"]
            /\ UNCHANGED <<store, ops, ret>>
    /\ UNCHANGED <<page, store0, tenders, top, snap, idx, runReturn,
                   fnIn, fnOut, fnDone>>

\* one iteration of: for idx, tender in enumerate(tenders, start=2): ws.append_row
SheetsAppend(p) ==
    /\ pc[p] = "append"
    /\ idx[p] < Len(top[p])
    /\ \E ok \in BOOLEAN :
          /\ ops' = Append(ops, Call(p, "append_row", RowOf(top[p][idx[p] + 1]), ok))
          /\ IF ok
             THEN /\ store' = Append(store, RowOf(top[p][idx[p] + 1]))
                  /\ idx' = [idx EXCEPT ![p] = @ + 1]
                  /\ UNCHANGED <<pc, ret>>
             ELSE /\ OnError(p)
                  /\ UNCHANGED <<store, idx>>
    /\ UNCHANGED <<page, store0, tenders, top, snap, runReturn,
                   fnIn, fnOut, fnDone>>

\* the loop is over: print the count, return True
SheetsReturnTrue(p) ==
    /\ pc[p] = "append"
    /\ idx[p] = Len(top[p])
    /\ ret' = [ret EXCEPT ![p] = "True"]
    /\ pc' = [pc EXCEPT ![p] = "finish"]
    /\ UNCHANGED <<page, store, store0, ops, tenders, top, snap, idx,
                   runReturn, fnIn, fnOut, fnDone>>

(***************************************************************************)
(* run                                                                     *)
(***************************************************************************)
top_limit == 10

\* not tenders
\* faulty variant: the early return is never taken
NoTendersNever(ts) == FALSE
NoTenders(ts) == ts = <<>>

\* tenders = self.search_tenders_selenium()
Search(p) ==
    /\ pc[p] = "idle"
    /\ \E outcome \in FetchOutcomes :
          tenders' = [tenders EXCEPT ![p] = search_tenders_selenium(page[p], outcome)]
    /\ pc' = [pc EXCEPT ![p] = "searched"]
    /\ UNCHANGED <<page, store, store0, ops, top, snap, idx, ret, runReturn,
                   fnIn, fnOut, fnDone>>

\* if not tenders: print("No tenders found. Exiting."); return
ExitNoTenders(p) ==
    /\ pc[p] = "searched"
    /\ NoTenders(tenders[p])
    /\ runReturn' = [runReturn EXCEPT ![p] = "None"]
    /\ pc' = [pc EXCEPT ![p] = "done"]
    /\ UNCHANGED <<page, store, store0, ops, tenders, top, snap, idx, ret,
                   fnIn, fnOut, fnDone>>

\* top_tenders = self.filter_top_tenders(tenders, limit=10)
FilterTop(p) ==
    /\ pc[p] = "searched"
    /\ ~NoTenders(tenders[p])
    /\ \E r \in filter_top_tenders(tenders[p], top_limit) :
          top' = [top EXCEPT ![p] = r]
    /\ pc' = [pc EXCEPT ![p] = "open"]
    /\ UNCHANGED <<page, store, store0, ops, tenders, snap, idx, ret,
                   runReturn, fnIn, fnOut, fnDone>>

\* self.update_google_sheets(top_tenders) has returned and its result is
\* dropped; print the completion line; run() ends without a return statement
Completed(p) ==
    /\ pc[p] = "finish"
    /\ runReturn' = [runReturn EXCEPT ![p] = "None"]
    /\ pc' = [pc EXCEPT ![p] = "done"]
    /\ UNCHANGED <<page, store, store0, ops, tenders, top, snap, idx, ret,
                   fnIn, fnOut, fnDone>>

(***************************************************************************)
(* Inputs: pages the portal can render, and sheets an earlier run left     *)
(***************************************************************************)
Txt_rfq_lower == <<"r", "e", "q", "u", "e", "s", "t", " ", "f", "o", "r",
    " ", "q", "u", "o", "t", "a", "t", "i", "o", "n">>
Txt_RFP_UPPER == <<"R", "E", "Q", "U", "E", "S", "T", " ", "F", "O", "R",
    " ", "P", "R", "O", "P", "O", "S", "A", "L">>
Txt_Framework == <<"F", "r", "a", "m", "e", "w", "o", "r", "k", " ", "A",
    "g", "r", "e", "e", "m", "e", "n", "t">>
Txt_RFQ_cut == <<"R", "e", "q", "u", "e", "s", "t", " ", "f", "o", "r", " ",
    "q", "u", "o", "t">>
Txt_sep == <<" ", "/", " ">>
Txt_Open == <<"O", "p", "e", "n", " ">>
Txt_abbrev == <<" ", "(", "R", "F", "Q", ")">>
Title_chairs == <<" ", " ", "O", "f", "f", "i", "c", "e", " ", "c", "h", "a",
    "i", "r", "s", " ", "s", "u", "p", "p", "l", "y", " ">>
Title_FURNITURE == <<"O", "F", "F", "I", "C", "E", " ", "F", "U", "R", "N",
    "I", "T", "U", "R", "E">>
Title_desks == <<"O", "f", "f", "i", "c", "e", " ", "d", "e", "s", "k", "s">>
Title_laptops == <<"L", "a", "p", "t", "o", "p", "s">>
Title_supplies == <<"o", "f", "f", "i", "c", "e", " ", "s", "u", "p", "p",
    "l", "i", "e", "s">>
Title_blank == <<" ", " ">>
Txt_date == <<"1", "-", "J", "a", "n">>
Txt_org == <<"U", "N", "D", "P">>
Txt_ref == <<"R", "7">>
Txt_country == <<"K", "E">>
Txt_extra == <<"x">>
Href_a == <<"/", "n", "/", "a">>
Href_b == <<"/", "n", "/", "b">>
Href_c == <<"/", "n", "/", "c">>
Href_d == <<"/", "n", "/", "d">>
Href_e == <<"/", "n", "/", "e">>
Txt_old == <<"o", "f", "f", "i", "c", "e", " ", "o", "l", "d">>
Txt_item == <<"o", "f", "f", "i", "c", "e", " ", "i", "t", "e", "m">>

\* a <tr> with n cells: the title cell, deadline, published, organization,
\* type, reference, country, then cells the loop never reads
RawRow(first, typeText, n) ==
    SubSeq(<<first, Cell(Txt_date), Cell(Txt_date), Cell(Txt_org),
             Cell(typeText), Cell(Txt_ref), Cell(Txt_country), Cell(Txt_extra)>>,
           1, n)

Row_chairs == RawRow(LinkCell(Link(Title_chairs, Href_a)), Str_RFQ, 7)
Row_furniture == RawRow(LinkCell(Link(Title_FURNITURE, Href_b)), Str_RFP, 7)
Row_desks == RawRow(LinkCell(Link(Title_desks, Href_c)), Txt_Framework, 7)
Row_supplies == RawRow(LinkCell(LinkNoHref(Title_supplies)), Str_ITB \o <<"\n">>, 8)
Row_laptops == RawRow(LinkCell(Link(Title_laptops, Href_d)), Str_RFQ, 7)
Row_six_cells == RawRow(LinkCell(Link(Title_supplies, Href_e)), Str_RFQ, 6)
Row_no_link == RawRow(Cell(Title_supplies), Str_RFQ, 7)
Row_blank_link == RawRow(LinkCell(Link(Title_blank, Href_e)), Str_RFQ, 7)

RawRows == {Row_chairs, Row_furniture, Row_desks, Row_supplies, Row_laptops,
            Row_six_cells, Row_no_link, Row_blank_link}

SeqsUpTo(S, n) == UNION {[1..k -> S] : k \in 0..n}

Pages == SeqsUpTo(RawRows, MaxRows)

\* the i-th row an earlier run appended
OldRow(i) ==
    RowOf(WithScore(tender_data(
        RawRow(LinkCell(Link(Txt_old \o [j \in 1..i |-> "x"], Href_e)), Str_RFQ, 7))))

PriorStores == {[i \in 1..n |-> OldRow(i)] : n \in 0..MaxPrior}

(***************************************************************************)
(* One run against the sheet                                               *)
(***************************************************************************)
RunInit(runs) ==
    /\ store0 \in PriorStores
    /\ store = store0
    /\ ops = <<>>
    /\ pc = [p \in runs |-> "idle"]
    /\ tenders = [p \in runs |-> <<>>]
    /\ top = [p \in runs |-> <<>>]
    /\ snap = [p \in runs |-> 0]
    /\ idx = [p \in runs |-> 0]
    /\ ret = [p \in runs |-> "unset"]
    /\ runReturn = [p \in runs |-> "unset"]
    /\ fnIn = <<>>
    /\ fnOut = <<>>
    /\ fnDone = FALSE

Init ==
    /\ page \in [{1} -> Pages]
    /\ RunInit({1})

Next ==
    \/ \E p \in DOMAIN pc : Search(p)
    \/ \E p \in DOMAIN pc : ExitNoTenders(p)
    \/ \E p \in DOMAIN pc : FilterTop(p)
    \/ \E p \in DOMAIN pc : SheetsOpen(p)
    \/ \E p \in DOMAIN pc : SheetsClear(p)
    \/ \E p \in DOMAIN pc : SheetsAppend(p)
    \/ \E p \in DOMAIN pc : SheetsReturnTrue(p)
    \/ \E p \in DOMAIN pc : Completed(p)

Spec == Init /\ [][Next]_vars

(***************************************************************************)
(* Two runs started against the same sheet, each seeing its own page       *)
(***************************************************************************)
RacePages(p) ==
    IF p = 1 THEN {<<Row_chairs>>, <<Row_desks, Row_chairs>>}
    ELSE {<<Row_furniture>>, <<Row_furniture, Row_supplies>>}

RaceInit ==
    /\ \E p1 \in RacePages(1), p2 \in RacePages(2) : page = <<p1, p2>>
    /\ RunInit({1, 2})

SpecRace == RaceInit /\ [][Next]_vars

(***************************************************************************)
(* Direct calls of the pure methods                                        *)
(***************************************************************************)
NoRun ==
    /\ page = <<>>
    /\ store0 = <<>>
    /\ store = <<>>
    /\ ops = <<>>
    /\ pc = <<>>
    /\ tenders = <<>>
    /\ top = <<>>
    /\ snap = <<>>
    /\ idx = <<>>
    /\ ret = <<>>
    /\ runReturn = <<>>

RunUnchanged ==
    UNCHANGED <<page, store, store0, ops, pc, tenders, top, snap, idx, ret, runReturn>>

\* procurement-type texts: a lead-in, a phrase, a tail
TypeLeads == {<<>>, <<" ">>, Txt_Open, Txt_RFQ_cut \o Txt_sep}
TypePhrases == {<<>>, Str_RFQ, Str_ITB, Str_RFP, Txt_rfq_lower, Txt_RFP_UPPER,
                Txt_RFQ_cut, Txt_Framework}
TypeTails == {<<>>, Txt_sep \o Str_RFP, Txt_sep \o Str_ITB, Txt_abbrev, <<"s">>}

TypeText(parts) == parts[1] \o parts[2] \o parts[3]

ClassifyInit ==
    /\ fnIn \in TypeLeads \X TypePhrases \X TypeTails
    /\ fnOut = <<>>
    /\ fnDone = FALSE
    /\ NoRun

CallClassify ==
    /\ ~fnDone
    /\ fnOut' = assess_difficulty(TypeText(fnIn))
    /\ fnDone' = TRUE
    /\ UNCHANGED fnIn
    /\ RunUnchanged

SpecClassify == ClassifyInit /\ [][CallClassify]_vars

\* the i-th tender of a list handed to filter_top_tenders, already classified
Difficulties == {Str_Easy, Str_Moderate, Str_Complex}

TypeOf(d) ==
    CASE d = Str_Easy -> Str_RFQ
      [] d = Str_Moderate -> Str_RFP
      [] d = Str_Complex -> Txt_Framework

Classified(i, d) ==
    tender_data(RawRow(LinkCell(Link(Txt_item \o [j \in 1..i |-> "i"], Href_a)),
                       TypeOf(d), 7))

RankInputs ==
    {[i \in 1..Len(ds) |-> Classified(i, ds[i])] : ds \in SeqsUpTo(Difficulties, MaxLen)}

RankInit ==
    /\ fnIn \in [tenders : RankInputs, limit : 0..MaxLimit]
    /\ fnOut = <<>>
    /\ fnDone = FALSE
    /\ NoRun

CallFilterTop ==
    /\ ~fnDone
    /\ fnOut' \in filter_top_tenders(fnIn.tenders, fnIn.limit)
    /\ fnDone' = TRUE
    /\ UNCHANGED fnIn
    /\ RunUnchanged

SpecRank == RankInit /\ [][CallFilterTop]_vars

(***************************************************************************)
(* Properties                                                              *)
(***************************************************************************)
Runs == DOMAIN pc
Searched(p) == pc[p] # "idle"
Finished(p) == pc[p] = "done"
CallsOf(p) == SelectSeq(ops, LAMBDA c : c.run = p)
RowsOf(ts) == [i \in 1..Len(ts) |->
    <<ts[i].Title, ts[i].Deadline, ts[i].Published, ts[i].Organization, ts[i].Type,
      ts[i].Reference, ts[i].Country, ts[i].Status, ts[i].Difficulty, ts[i].URL>>]

\* C1: a run whose search yields zero tenders (no rows, no row passing the
\* gates, or a failed fetch) never calls the worksheet: it issues no clear
\* and no append, update_google_sheets is never entered, and the sheet's
\* contents stay what they were when the run started.
C1_NoTendersStoreUntouched ==
    \A p \in Runs :
        (Searched(p) /\ tenders[p] = <<>>) =>
            /\ pc[p] \in {"searched", "done"}
            /\ CallsOf(p) = <<>>
            /\ ret[p] = "unset"
            /\ store = store0

\* C1 witness: the fetch failed on a page that had relevant rows, the sheet
\* held rows, and the run is over.
C1_Witness ==
    /\ Finished(1)
    /\ tenders[1] = <<>>
    /\ ParseRows(page[1]) # <<>>
    /\ store0 # <<>>

\* C2: a reconcile that meets no failure issues one clear if the sheet held
\* data rows (none otherwise) and then one append per tender of the
\* shortlist, in shortlist order, each of exactly 10 fields in the order
\* Title, Deadline, Published, Organization, Type, Reference, Country,
\* Status, Difficulty, URL; nothing precedes the clear, and the sheet ends
\* holding exactly those rows.
C2_ClearThenAppends ==
    \A p \in Runs :
        ret[p] = "True" =>
            LET c == IF store0 # <<>> THEN 1 ELSE 0
                n == Len(top[p])
            IN  /\ Len(ops) = c + n
                /\ \A k \in DOMAIN ops : ops[k].ok /\ ops[k].run = p
                /\ c = 1 => ops[1].op = "delete_rows"
                /\ \A i \in 1..n :
                      /\ ops[c + i].op = "append_row"
                      /\ Len(ops[c + i].row) = 10
                      /\ ops[c + i].row = RowsOf(top[p])[i]
                /\ store = RowsOf(top[p])

\* C2 witness: a reconcile of two tenders over a sheet that held rows returned True.
C2_Witness ==
    /\ ret[1] = "True"
    /\ Len(top[1]) = 2
    /\ store0 # <<>>

OkAppendRows == [i \in 1..Len(SelectSeq(ops, LAMBDA c : c.ok /\ c.op = "append_row")) |->
    SelectSeq(ops, LAMBDA c : c.ok /\ c.op = "append_row")[i].row]

\* C3: when the clear or an append fails, update_google_sheets returns False
\* rather than raising, the failed call is the last one the run issues, and
\* the sheet is left as the calls that succeeded before it made it: the rows
\* appended so far stay, and without a successful clear so do the old rows.
C3_FailureAborts ==
    \A p \in Runs :
        /\ (\E k \in DOMAIN ops : ~ops[k].ok) =>
              /\ ret[p] = "False"
              /\ pc[p] \in {"finish", "done"}
        /\ ret[p] = "False" =>
              /\ \A k \in 1..(Len(ops) - 1) : ops[k].ok
              /\ ops # <<>> => ~ops[Len(ops)].ok
              /\ store = IF \E k \in DOMAIN ops : ops[k].ok /\ ops[k].op = "delete_rows"
                         THEN OkAppendRows
                         ELSE store0 \o OkAppendRows
        /\ ret[p] = "True" => \A k \in DOMAIN ops : ops[k].ok

\* C3 witness: of three tenders the first was appended, the second append
\* failed, the third was never sent, and the run is over with the one row.
C3_Witness ==
    /\ Finished(1)
    /\ ret[1] = "False"
    /\ Len(top[1]) = 3
    /\ Len(OkAppendRows) = 1
    /\ store = OkAppendRows
    /\ ops[Len(ops)].op = "append_row"

\* C4: the run ends with a success signal that tells a failed reconcile from
\* a successful one: failure when update_google_sheets returned False,
\* success when it returned True or when there were no tenders.
C4_TerminalOutcome ==
    \A p \in Runs :
        Finished(p) =>
            /\ ret[p] = "False" => runReturn[p] = "False"
            /\ ret[p] = "True" => runReturn[p] # "False"
            /\ tenders[p] = <<>> => runReturn[p] # "False"

Score(t) == IF t.Difficulty = Str_Easy THEN 1 ELSE IF t.Difficulty = Str_Moderate THEN 2 ELSE 3

\* the place in the list handed in of a tender handed back
PlaceIn(ts, t) == CHOOSE j \in DOMAIN ts : ts[j].Title = t.Title

SameTender(a, b) == \A k \in DOMAIN b : a[k] = b[k]

\* C5: filter_top_tenders hands the tenders back in ascending difficulty
\* (Easy, Moderate, Complex) and keeps tenders of equal difficulty in the
\* order they came in; [C1, E1, M1, E2] comes back as [E1, E2, M1, C1].
C5_StableAscending ==
    fnDone =>
        /\ \A i \in 1..(Len(fnOut) - 1) : Score(fnOut[i]) <= Score(fnOut[i + 1])
        /\ \A i, j \in DOMAIN fnOut :
              (i < j /\ Score(fnOut[i]) = Score(fnOut[j])) =>
                  PlaceIn(fnIn.tenders, fnOut[i]) < PlaceIn(fnIn.tenders, fnOut[j])

\* C6: filter_top_tenders hands back exactly min(n, limit) of the n tenders,
\* each once, in ascending difficulty, and none it leaves out is easier
\* than one it hands back: a leading part of the sorted list. No tenders in,
\* none out.
C6_TopPrefix ==
    fnDone =>
        LET ts == fnIn.tenders
            n == Len(ts)
            m == IF n < fnIn.limit THEN n ELSE fnIn.limit
            kept == {PlaceIn(ts, fnOut[i]) : i \in DOMAIN fnOut}
        IN  /\ Len(fnOut) = m
            /\ \A i \in DOMAIN fnOut :
                  \E j \in DOMAIN ts : SameTender(fnOut[i], ts[j])
            /\ Cardinality(kept) = m
            /\ \A i \in 1..(Len(fnOut) - 1) : Score(fnOut[i]) <= Score(fnOut[i + 1])
            /\ \A j \in DOMAIN ts \ kept : \A i \in DOMAIN fnOut :
                  Score(fnOut[i]) <= Score(ts[j])
            /\ n = 0 => fnOut = <<>>

\* C6 witness: four tenders with limit 2 gave two, and a Complex tender that
\* came first was left out.
C6_Witness ==
    /\ fnDone
    /\ Len(fnIn.tenders) = 4
    /\ fnIn.limit = 2
    /\ Len(fnOut) = 2
    /\ fnIn.tenders[1].Difficulty = Str_Complex
    /\ fnOut[2].Difficulty = Str_Moderate

\* C7: assess_difficulty answers for every text: Easy when the text holds
\* "Request for quotation" or "Invitation to bid" as written (also when it
\* holds "Request for proposal" too), else Moderate when it holds "Request
\* for proposal", else Complex; the empty text, other wording and other
\* letter case are Complex.
C7_Classify ==
    fnDone =>
        LET text == TypeText(fnIn)
            easy == Contains(Str_RFQ, text) \/ Contains(Str_ITB, text)
            moderate == Contains(Str_RFP, text)
            bare == fnIn[1] = <<>> /\ fnIn[3] = <<>>
        IN  /\ fnOut \in {Str_Easy, Str_Moderate, Str_Complex}
            /\ fnOut = Str_Easy <=> easy
            /\ fnOut = Str_Moderate <=> (moderate /\ ~easy)
            /\ fnOut = Str_Complex <=> (~moderate /\ ~easy)
            /\ fnIn[2] \in {Str_RFQ, Str_ITB} => fnOut = Str_Easy
            /\ fnIn[3] = Txt_sep \o Str_ITB => fnOut = Str_Easy
            /\ (bare /\ fnIn[2] = Str_RFP) => fnOut = Str_Moderate
            /\ (bare /\ fnIn[2] \in {<<>>, Txt_Framework, Txt_rfq_lower,
                                      Txt_RFP_UPPER, Txt_RFQ_cut})
                  => fnOut = Str_Complex

\* C7 witness: a text holding both "Request for quotation" and "Request for
\* proposal" was classified Easy.
C7_Witness ==
    /\ fnDone
    /\ fnIn[2] = Str_RFP
    /\ fnIn[3] = Txt_sep \o Str_ITB
    /\ fnOut = Str_Easy

\* the rows of a page that have at least 7 cells and a link with text in
\* the first cell
Accepted(rows) ==
    SelectSeq(rows, LAMBDA r : /\ Len(r) >= 7
                               /\ r[1].a.present
                               /\ strip(r[1].a.text) # <<>>)

\* C8: every tender the row loop emits has a non-empty title and comes from
\* a row with at least 7 cells whose first cell holds a link with text; rows
\* with fewer cells or without such a link emit nothing.
C8_ValidRowsOnly ==
    \A p \in Runs :
        LET acc == Accepted(page[p])
        IN  /\ Len(tenders[p]) <= Len(acc)
            /\ \A i \in DOMAIN tenders[p] :
                  /\ tenders[p][i].Title # <<>>
                  /\ \E k \in DOMAIN acc :
                        /\ tenders[p][i].Title = strip(acc[k][1].a.text)
                        /\ tenders[p][i].URL =
                              IF acc[k][1].a.hasHref THEN acc[k][1].a.href ELSE Str_NA

\* C8 witness: a page with a relevant 6-cell row and a relevant 7-cell row
\* gave one tender.
C8_Witness ==
    /\ Searched(1)
    /\ Len(tenders[1]) = 1
    /\ \E i, j \in DOMAIN page[1] :
          /\ page[1][i] = Row_six_cells
          /\ page[1][j] = Row_chairs

HasTerm(title) == \E i \in DOMAIN search_terms : Contains(search_terms[i], lower(title))
HasOffice(title) == Contains(Str_office, lower(title))

\* C9 as claimed: every emitted tender's title holds, whatever the letter
\* case, one of search_terms.
C9_Original ==
    \A p \in Runs : \A i \in DOMAIN tenders[p] : HasTerm(tenders[p][i].Title)

\* C9 as amended: every emitted tender's title holds, whatever the letter
\* case, the word "office" (which each of search_terms holds too); a row
\* whose title does not is dropped, so no such title reaches top_tenders or
\* a row sent to the sheet.
C9_OfficeTitles ==
    \A p \in Runs :
        /\ \A i \in DOMAIN tenders[p] : HasOffice(tenders[p][i].Title)
        /\ \A i \in DOMAIN top[p] : HasOffice(top[p][i].Title)
        /\ \A k \in DOMAIN ops : ops[k].op = "append_row" => HasOffice(ops[k].row[1])
        /\ Len(tenders[p]) <=
              Len(SelectSeq(page[p], LAMBDA r : r[1].a.present /\ HasOffice(r[1].a.text)))
        /\ \A i \in DOMAIN search_terms : Contains(Str_office, search_terms[i])

\* C9 witness: "Office desks", which holds none of search_terms, was
\* emitted and sent to the sheet, next to a page row titled "Laptops".
C9_Witness ==
    /\ \E i \in DOMAIN tenders[1] :
          /\ tenders[1][i].Title = Title_desks
          /\ ~HasTerm(tenders[1][i].Title)
    /\ \E k \in DOMAIN ops : ops[k].op = "append_row" /\ ops[k].row[1] = Title_desks
    /\ \E i \in DOMAIN page[1] : page[1][i] = Row_laptops

BothReconciled == \A p \in Runs : Finished(p) /\ ret[p] = "True"

\* the rows of the sheet that run p appended
Kept(p) == SelectSeq(store, LAMBDA r : \E i \in DOMAIN top[p] : RowsOf(top[p])[i] = r)

RECURSIVE IsSubSeq(_, _)
IsSubSeq(a, b) ==
    IF a = <<>> THEN TRUE
    ELSE IF b = <<>> THEN FALSE
    ELSE IF Head(a) = Head(b) THEN IsSubSeq(Tail(a), Tail(b))
    ELSE IsSubSeq(a, Tail(b))

\* C10 as claimed: after two runs reconciled side by side without a failure,
\* the sheet holds exactly the shortlist of one of them, in its order.
C10_LaterWins ==
    BothReconciled => \E p \in Runs : store = RowsOf(top[p])

\* C10 as amended: after two runs reconciled side by side without a
\* failure, no row from before the runs is left, every row is a row of one
\* of the two shortlists, one run's shortlist is there whole and in order,
\* and what is left of the other run's rows keeps its shortlist order.
C10_BothMayRemain ==
    BothReconciled =>
        /\ \A k \in DOMAIN store : \E p \in Runs : \E i \in DOMAIN top[p] :
              store[k] = RowsOf(top[p])[i]
        /\ \A k \in DOMAIN store : \A j \in DOMAIN store0 : store[k] # store0[j]
        /\ \E p \in Runs : Kept(p) = RowsOf(top[p])
        /\ \A p \in Runs : IsSubSeq(Kept(p), RowsOf(top[p]))

\* C10 witness: both runs are over without a failure and the sheet, which
\* held rows before, holds rows of both, a row of run 2 before one of run 1.
C10_Witness ==
    /\ BothReconciled
    /\ store0 # <<>>
    /\ Kept(1) # <<>>
    /\ Kept(2) # <<>>
    /\ \E i, j \in DOMAIN store :
          /\ i < j
          /\ store[i] = RowsOf(top[2])[1]
          /\ store[j] = RowsOf(top[1])[Len(top[1])]

====
